---- MODULE Spec2Model ----
(***************************************************************************)
(* FallingText (src/src/FallingText.jsx): a React component whose words,   *)
(* once activated, are handed to a matter-js world and mirrored back onto  *)
(* the word elements every animation frame.                                *)
(*                                                                         *)
(* The host holds the props; Mount creates the instance.  The model       *)
(* follows React's commit discipline: a render captures props and state,   *)
(* then the passive effects whose dependencies changed run in source       *)
(* order, all cleanups before all bodies; state setters only take effect   *)
(* at the next render.                                                     *)
(***************************************************************************)
EXTENDS Integers, Sequences, FiniteSets, TLC

----------------------------------------------------------------------------
(* Bounds of the exploration *)

MaxLen == 3        \* longest text enumerated by InitRender
MaxHw == 2         \* longest highlightWords list enumerated by InitRender
MaxChanges == 2    \* prop changes, host re-renders, resizes and remounts in one run

----------------------------------------------------------------------------
(* Texts are sequences of one-character strings *)

Alphabet == {"a", "A", "b", " ", "\t"}

RECURSIVE SeqsUpTo(_, _)
SeqsUpTo(S, n) ==
  IF n = 0 THEN {<< >>}
  ELSE LET shorter == SeqsUpTo(S, n - 1)
       IN shorter \cup {Append(s, c) : s \in {t \in shorter : Len(t) = n - 1}, c \in S}

\* String.prototype.toLowerCase / toUpperCase on the modelled characters
toLowerCaseChar(c) == IF c = "A" THEN "a" ELSE IF c = "B" THEN "b" ELSE c
toUpperCaseChar(c) == IF c = "a" THEN "A" ELSE IF c = "b" THEN "B" ELSE c
toLowerCase(w) == [i \in 1..Len(w) |-> toLowerCaseChar(w[i])]
toUpperCase(w) == [i \in 1..Len(w) |-> toUpperCaseChar(w[i])]

\* text.split(" "): cuts at every single space, keeps empty pieces,
\* and returns one empty piece for the empty text
RECURSIVE split(_)
split(s) ==
  IF \A i \in 1..Len(s) : s[i] # " " THEN << s >>
  ELSE LET i == CHOOSE k \in 1..Len(s) :
                  s[k] = " " /\ \A j \in 1..(k - 1) : s[j] # " "
       IN << SubSeq(s, 1, i - 1) >> \o split(SubSeq(s, i + 1, Len(s)))

\* a comparison that forgets to fold the case
isHighlighted_caseSensitive(word, highlightWords) ==
  \E k \in 1..Len(highlightWords) : word = highlightWords[k]

\* highlightWords.some(hw => word.toLowerCase() === hw.toLowerCase())
isHighlighted(word, highlightWords) ==
  \E k \in 1..Len(highlightWords) :
     toLowerCase(word) = toLowerCase(highlightWords[k])

\* the spans written into textRef.current.innerHTML, one per piece
newHTML(text, highlightWords) ==
  LET words == split(text)
  IN [i \in 1..Len(words) |->
        [word |-> words[i], hl |-> isHighlighted(words[i], highlightWords)]]

----------------------------------------------------------------------------
(* Inputs of the host *)

Triggers == {"auto", "scroll", "click", "hover"}
TextInputs == { <<"a", " ", "B">>, <<"a", " ", " ", "b">> }
HwInputs == { << <<"b">> >>, << <<"A">>, <<"b">> >> }
InitialText == <<"a", " ", "B">>
InitialHw == << <<"b">> >>
Gravities == {0, 1}
Stiffnesses == {2, 9}                      \* tenths
Backgrounds == {"transparent", "black"}
Sizes == { [w |-> 200, h |-> 100], [w |-> 200, h |-> 0], [w |-> 0, h |-> 100] }
Ratios == {0, 5, 10, 100}                  \* visible percentage of the container

threshold == 10                            \* { threshold: 0.1 }, in percent
wallThickness == 50
wallOffset == 25

DefaultCfg ==
  [gravity |-> 1, wireframes |-> FALSE,
   backgroundColor |-> "transparent", mouseConstraintStiffness |-> 2]

VARIABLES
  mounted,     \* the component instance exists
  committed,   \* its first commit (and effects) has happened
  props,       \* props the host passes at the next render
  rd,          \* props and state captured by the last render
  st,          \* React state: effectStarted, isInitialized
  renderReq,   \* the host asked for a re-render with the same props
  dom,         \* content of textRef: the word spans and their styling
  size,        \* rectangle of the container as the layout has it now
  observers,   \* every IntersectionObserver created so far
  effObs,      \* observer held by the trigger effect's cleanup (0: none)
  sessions,    \* every physics session created so far
  curSession,  \* session held by the physics effect's cleanup (0: none)
  changes,     \* host changes used so far
  mounts,      \* mounts so far
  anyEvent,    \* history: a click, mouse-over or intersection was delivered
  everIntersecting, \* history: an entry with isIntersecting was delivered in this mount
  rendered,    \* history: the trigger modes this mount has rendered
  activatedBy, \* history: what first set effectStarted in this mount
  lastStart    \* history: outcome of the last session start of this mount

vars == << mounted, committed, props, rd, st, renderReq, dom, size, observers,
           effObs, sessions, curSession, changes, mounts, anyEvent,
           everIntersecting, rendered, activatedBy, lastStart >>

\* everything but the history variables
progVars == << mounted, committed, props, rd, st, renderReq, dom, size,
               observers, effObs, sessions, curSession >>

InitialState == [effectStarted |-> FALSE, isInitialized |-> FALSE]
EmptyDom == [spans |-> << >>, pos |-> "static", by |-> 0, left |-> << >>]

InitWith(p) ==
  /\ mounted = FALSE
  /\ committed = FALSE
  /\ props = p
  /\ rd = [props |-> p, st |-> InitialState]
  /\ st = InitialState
  /\ renderReq = FALSE
  /\ dom = EmptyDom
  /\ size \in Sizes
  /\ observers = << >>
  /\ effObs = 0
  /\ sessions = << >>
  /\ curSession = 0
  /\ changes = 0
  /\ mounts = 0
  /\ anyEvent = FALSE
  /\ everIntersecting = FALSE
  /\ rendered = {}
  /\ activatedBy = "none"
  /\ lastStart = "none"

\* hwId = 0: the host passes no highlightWords, the default [] is a new
\* array at every render; hwId > 0: identity of the array the host passes
Init ==
  \E tr \in Triggers, id \in {0, 1} :
     InitWith([text |-> InitialText,
               highlightWords |-> IF id = 0 THEN << >> ELSE InitialHw,
               hwId |-> id, trigger |-> tr, cfg |-> DefaultCfg])

----------------------------------------------------------------------------
(* Dependency lists of the three effects, read from a render's snapshot *)

textDeps(r) ==
  << r.props.text, r.props.hwId >>

triggerDeps(r) ==
  << r.props.trigger, r.st.isInitialized >>

\* a dependency list that also names text
physicsDeps_withText(r) ==
  << r.st.effectStarted, r.st.isInitialized, r.props.cfg.gravity,
     r.props.cfg.wireframes, r.props.cfg.backgroundColor,
     r.props.cfg.mouseConstraintStiffness, r.props.text >>

\* a dependency list without gravity
physicsDeps_noGravity(r) ==
  << r.st.effectStarted, r.st.isInitialized,
     r.props.cfg.wireframes, r.props.cfg.backgroundColor,
     r.props.cfg.mouseConstraintStiffness >>

physicsDeps(r) ==
  << r.st.effectStarted, r.st.isInitialized, r.props.cfg.gravity,
     r.props.cfg.wireframes, r.props.cfg.backgroundColor,
     r.props.cfg.mouseConstraintStiffness >>

\* an effect runs at the first commit and whenever a dependency is not
\* Object.is-equal to the previous render's; the default [] of an omitted
\* highlightWords is a new array at every render
textRuns(r) == ~committed \/ textDeps(r) # textDeps(rd) \/ r.props.hwId = 0
triggerRuns(r) == ~committed \/ triggerDeps(r) # triggerDeps(rd)
physicsRuns(r) == ~committed \/ physicsDeps(r) # physicsDeps(rd)

----------------------------------------------------------------------------
(* The trigger effect and its observer *)

NewObserver == [connected |-> TRUE, prevIdx |-> -1, prevInt |-> FALSE]

\* a cleanup that leaves the observer observing
disconnect_noop(obs, o) == obs

\* observer.disconnect(): idempotent
disconnect(obs, o) ==
  IF o = 0 THEN obs ELSE [obs EXCEPT ![o].connected = FALSE]

\* a callback that does not look at entry.isIntersecting
callbackActivates_anyEntry(isIntersecting) == TRUE

\* ([entry]) => { if (entry.isIntersecting) { setEffectStarted(true); observer.disconnect() } }
callbackActivates(isIntersecting) == isIntersecting

\* a trigger effect that starts on the wrong mode
autoStarts_wrongMode(r) == r.st.isInitialized /\ r.props.trigger = "click"

\* if (!isInitialized) return; if (trigger === "auto") { setEffectStarted(true); return }
autoStarts(r) == r.st.isInitialized /\ r.props.trigger = "auto"

\* if (trigger === "scroll" && containerRef.current) { new IntersectionObserver ... }
observes(r) == r.st.isInitialized /\ r.props.trigger = "scroll"

----------------------------------------------------------------------------
(* The physics effect *)

\* a dimension check with < for <=
degenerate_strict(sz) == sz.w < 0 \/ sz.h < 0

\* if (width <= 0 || height <= 0) return
degenerate(sz) == sz.w <= 0 \/ sz.h <= 0

\* a guard that only waits for the markup
physicsGuard_noStarted(r) == r.st.isInitialized

\* if (!effectStarted || !isInitialized) return
physicsGuard(r) == r.st.effectStarted /\ r.st.isInitialized

\* a floor that lies inside the container
boundaries_floorInside(sz) ==
  << [name |-> "floor", isStatic |-> TRUE, x |-> sz.w \div 2,
      y |-> sz.h - wallOffset, w |-> sz.w, h |-> wallThickness],
     [name |-> "leftWall", isStatic |-> TRUE, x |-> 0 - wallOffset,
      y |-> sz.h \div 2, w |-> wallThickness, h |-> sz.h],
     [name |-> "rightWall", isStatic |-> TRUE, x |-> sz.w + wallOffset,
      y |-> sz.h \div 2, w |-> wallThickness, h |-> sz.h],
     [name |-> "ceiling", isStatic |-> TRUE, x |-> sz.w \div 2,
      y |-> 0 - wallOffset, w |-> sz.w, h |-> wallThickness] >>

\* floor, leftWall, rightWall, ceiling: Bodies.rectangle(x, y, w, h, boundaryOptions)
boundaries(sz) ==
  << [name |-> "floor", isStatic |-> TRUE, x |-> sz.w \div 2,
      y |-> sz.h + wallOffset, w |-> sz.w, h |-> wallThickness],
     [name |-> "leftWall", isStatic |-> TRUE, x |-> 0 - wallOffset,
      y |-> sz.h \div 2, w |-> wallThickness, h |-> sz.h],
     [name |-> "rightWall", isStatic |-> TRUE, x |-> sz.w + wallOffset,
      y |-> sz.h \div 2, w |-> wallThickness, h |-> sz.h],
     [name |-> "ceiling", isStatic |-> TRUE, x |-> sz.w \div 2,
      y |-> 0 - wallOffset, w |-> sz.w, h |-> wallThickness] >>

\* elem.getBoundingClientRect().width: the words are laid out on one line,
\* ten units a character, five units between neighbours; an empty span
\* has no width
rectWidth(word) == 10 * Len(word)

\* left edge of the k-th span in the flow when the spans in out have left it
RECURSIVE flowEdge(_, _, _)
flowEdge(spans, k, out) ==
  IF k <= 1 THEN 0
  ELSE flowEdge(spans, k - 1, out)
       + (IF (k - 1) \in out THEN 0 ELSE rectWidth(spans[k - 1].word) + 5)

\* rect.left - containerRect.left + rect.width / 2 of the k-th span: a span
\* in the flow is measured where the flow puts it, a span already made
\* absolute where its left style (with translate(-50%)) holds its centre
rectCentre(d, k, out) ==
  IF d.pos = "static"
  THEN flowEdge(d.spans, k, out) + rectWidth(d.spans[k].word) \div 2
  ELSE d.left[k]

\* a single loop that measures each span after styling the ones before it
measure_interleaved(d) ==
  [k \in 1..Len(d.spans) |-> rectCentre(d, k, 1..(k - 1))]

\* [...wordSpans].map(elem => ...): every span is measured, and its body
\* made at the measured centre, before the forEach styles any of them
measure(d) ==
  [k \in 1..Len(d.spans) |-> rectCentre(d, k, {})]

\* Engine.create ... updateLoop(): the session as it stands when the effect
\* body returns; d holds the .word elements of textRef at that time
startSession(sz, d, cfg, m) ==
  [ mount |-> m,
    gravity |-> cfg.gravity,
    w |-> sz.w, h |-> sz.h,              \* Render.create options
    boundaries |-> boundaries(sz),       \* World.add: the four walls,
    constraints |-> 1,                   \*   the mouse constraint,
    bodies |-> Len(d.spans),             \*   one body per word span
    wordBodies |-> Len(d.spans),         \* pairs { elem, body } of the closure
    widths |-> [k \in 1..Len(d.spans) |-> rectWidth(d.spans[k].word)],
    initX |-> measure(d),                \* body.position.x as created
    onDom |-> TRUE,                      \* their elems are textRef's spans
    canvasIn |-> TRUE,                   \* Render.create appended the canvas
    renderOn |-> TRUE,                   \* Render.run
    runnerOn |-> TRUE,                   \* Runner.run
    enabled |-> TRUE,                    \* runner.enabled
    loop |-> TRUE,                       \* updateLoop asked for a frame
    moved |-> FALSE,                     \* no step has run yet
    cleared |-> FALSE ]

\* does the cleanup closure throw: removeChild of a canvas that is no
\* longer a child of canvasContainerRef.current raises NotFoundError
cleanupThrows(s, refAttached) == refAttached /\ ~s.canvasIn

\* a cleanup that forgets Runner.stop and the clearing of the world
cleanup_keepsRunning(s, refAttached) ==
  [s EXCEPT !.renderOn = FALSE,
            !.canvasIn = IF refAttached THEN FALSE ELSE @]

\* the cleanup closure: Render.stop, Runner.stop, removeChild, World.clear,
\* Engine.clear. Runner.stop cancels the runner's frame and leaves
\* runner.enabled as it is. refAttached: canvasContainerRef.current is set
cleanup(s, refAttached) ==
  IF cleanupThrows(s, refAttached)
  THEN [s EXCEPT !.renderOn = FALSE, !.runnerOn = FALSE]
  ELSE [s EXCEPT !.renderOn = FALSE, !.runnerOn = FALSE,
                 !.canvasIn = IF refAttached THEN FALSE ELSE @,
                 !.boundaries = << >>, !.constraints = 0, !.bodies = 0,
                 !.cleared = TRUE]

\* setting innerHTML replaces the spans: closures keep the old elements
detach(ses) == [i \in DOMAIN ses |-> [ses[i] EXCEPT !.onDom = FALSE]]

----------------------------------------------------------------------------
(* One render of the component and the commit of its effects *)

NeedRender ==
  ~committed \/ renderReq \/ props # rd.props \/ st # rd.st

Commit ==
  /\ mounted
  /\ NeedRender
  /\ LET r == [props |-> props, st |-> st]
         textRun == textRuns(r)
         trigRun == triggerRuns(r)
         physRun == physicsRuns(r)
         \* cleanups of the effects that re-run, before any body
         obs1 == IF trigRun THEN disconnect(observers, effObs) ELSE observers
         ses1 == IF physRun /\ curSession # 0
                 THEN [sessions EXCEPT ![curSession] = cleanup(@, TRUE)]
                 ELSE sessions
         \* text effect
         dom1 == IF textRun
                 THEN [spans |-> newHTML(props.text, props.highlightWords),
                       pos |-> "static", by |-> 0, left |-> << >>]
                 ELSE dom
         ses2 == IF textRun THEN detach(ses1) ELSE ses1
         \* trigger effect
         auto == trigRun /\ autoStarts(r)
         obsv == trigRun /\ observes(r)
         obs2 == IF obsv THEN Append(obs1, NewObserver) ELSE obs1
         \* physics effect
         body == physRun /\ physicsGuard(r)
         build == body /\ ~degenerate(size)
         sid == Len(ses2) + 1
         ses3 == IF build
                 THEN Append(ses2, startSession(size, dom1, props.cfg, mounts))
                 ELSE ses2
     IN /\ rd' = r
        /\ st' = [effectStarted |-> st.effectStarted \/ auto,
                  isInitialized |-> st.isInitialized \/ textRun]
        /\ dom' = IF build
                  THEN [dom1 EXCEPT !.pos = "init", !.by = sid,
                                    !.left = ses3[sid].initX]
                  ELSE dom1
        /\ observers' = obs2
        /\ effObs' = IF trigRun THEN (IF obsv THEN Len(obs2) ELSE 0) ELSE effObs
        /\ sessions' = ses3
        /\ curSession' = IF physRun THEN (IF build THEN sid ELSE 0) ELSE curSession
        /\ lastStart' = IF body THEN (IF build THEN "ok" ELSE "abort") ELSE lastStart
  /\ committed' = TRUE
  /\ renderReq' = FALSE
  /\ rendered' = rendered \cup {props.trigger}
  /\ activatedBy' = IF ~st.effectStarted /\ st'.effectStarted THEN "auto"
                    ELSE activatedBy
  /\ UNCHANGED << mounted, props, size, changes, mounts, anyEvent, everIntersecting >>

----------------------------------------------------------------------------
(* Pointer events on the container *)

\* a handler that toggles the effect
handleTrigger_toggle(r, s) ==
  IF r.props.trigger \in {"click", "hover"}
  THEN [s EXCEPT !.effectStarted = ~r.st.effectStarted]
  ELSE s

\* if (!effectStarted && (trigger === "click" || trigger === "hover")) setEffectStarted(true)
handleTrigger(r, s) ==
  IF ~r.st.effectStarted /\ r.props.trigger \in {"click", "hover"}
  THEN [s EXCEPT !.effectStarted = TRUE]
  ELSE s

\* a container that binds the handler to clicks in every mode
Click_alwaysBound ==
  /\ mounted /\ committed
  /\ st' = handleTrigger(rd, st)
  /\ anyEvent' = TRUE
  /\ activatedBy' = IF ~st.effectStarted /\ st'.effectStarted THEN "click"
                    ELSE activatedBy
  /\ UNCHANGED << mounted, committed, props, rd, renderReq, dom, size, observers,
                  effObs, sessions, curSession, changes, mounts,
                  everIntersecting, rendered, lastStart >>

\* onClick={trigger === "click" ? handleTrigger : undefined}
Click ==
  /\ mounted /\ committed
  /\ st' = IF rd.props.trigger = "click" THEN handleTrigger(rd, st) ELSE st
  /\ anyEvent' = TRUE
  /\ activatedBy' = IF ~st.effectStarted /\ st'.effectStarted THEN "click"
                    ELSE activatedBy
  /\ UNCHANGED << mounted, committed, props, rd, renderReq, dom, size, observers,
                  effObs, sessions, curSession, changes, mounts,
                  everIntersecting, rendered, lastStart >>

\* onMouseOver={trigger === "hover" ? handleTrigger : undefined}
MouseOver ==
  /\ mounted /\ committed
  /\ st' = IF rd.props.trigger = "hover" THEN handleTrigger(rd, st) ELSE st
  /\ anyEvent' = TRUE
  /\ activatedBy' = IF ~st.effectStarted /\ st'.effectStarted THEN "mouseover"
                    ELSE activatedBy
  /\ UNCHANGED << mounted, committed, props, rd, renderReq, dom, size, observers,
                  effObs, sessions, curSession, changes, mounts,
                  everIntersecting, rendered, lastStart >>

----------------------------------------------------------------------------
(* The viewport: the browser delivers an entry to a connected observer when
   the container crosses the threshold or its isIntersecting flag changes;
   the first entry after observe() is always delivered.  Below the
   threshold the flag is the browser's choice. *)

Intersect ==
  /\ mounted
  /\ \E o \in DOMAIN observers, ratio \in Ratios, isIntersecting \in BOOLEAN :
       LET idx == IF ratio >= threshold THEN 1 ELSE 0
           fires == callbackActivates(isIntersecting)
       IN /\ observers[o].connected
          /\ ratio >= threshold => isIntersecting
          /\ idx # observers[o].prevIdx \/ isIntersecting # observers[o].prevInt
          /\ st' = IF fires THEN [st EXCEPT !.effectStarted = TRUE] ELSE st
          /\ observers' = [observers EXCEPT ![o] =
                             [connected |-> ~fires, prevIdx |-> idx,
                              prevInt |-> isIntersecting]]
          /\ everIntersecting' = (everIntersecting \/ isIntersecting)
  /\ anyEvent' = TRUE
  /\ activatedBy' = IF ~st.effectStarted /\ st'.effectStarted THEN "intersection"
                    ELSE activatedBy
  /\ UNCHANGED << mounted, committed, props, rd, renderReq, dom, size, effObs,
                  sessions, curSession, changes, mounts, rendered, lastStart >>

----------------------------------------------------------------------------
(* Animation frames *)

\* the runner's frame: Engine.update moves the bodies of the world
Tick ==
  /\ \E i \in DOMAIN sessions :
       /\ sessions[i].runnerOn /\ sessions[i].enabled /\ ~sessions[i].moved
       /\ sessions' = [sessions EXCEPT ![i].moved = TRUE]
  /\ UNCHANGED << mounted, committed, props, rd, st, renderReq, dom, size,
                  observers, effObs, curSession, changes, mounts, anyEvent,
                  everIntersecting, rendered, activatedBy, lastStart >>

\* body.position.x of every word body: a step moves each body by a unit
positions(s) ==
  [k \in 1..s.wordBodies |-> s.initX[k] + (IF s.moved THEN 1 ELSE 0)]

\* updateLoop: copy every body's position onto its element, then ask for
\* the next frame if (runner.enabled)
updateLoop(s) == [s EXCEPT !.loop = s.enabled]

Frame ==
  /\ \E i \in DOMAIN sessions :
       /\ sessions[i].loop
       /\ dom' = IF sessions[i].onDom
                 THEN [dom EXCEPT !.pos = IF sessions[i].moved THEN "moved"
                                          ELSE "init",
                                  !.by = i,
                                  !.left = positions(sessions[i])]
                 ELSE dom
       /\ sessions' = [sessions EXCEPT ![i] = updateLoop(@)]
  /\ UNCHANGED << mounted, committed, props, rd, st, renderReq, size, observers,
                  effObs, curSession, changes, mounts, anyEvent,
                  everIntersecting, rendered, activatedBy, lastStart >>

----------------------------------------------------------------------------
(* The host and the layout *)

HostVars == << mounted, committed, rd, st, dom, observers, effObs, sessions,
               curSession, mounts, anyEvent, everIntersecting, rendered,
               activatedBy, lastStart >>

Resize ==
  /\ mounted /\ changes < MaxChanges
  /\ \E sz \in Sizes : sz # size /\ size' = sz
  /\ changes' = changes + 1
  /\ UNCHANGED << HostVars, props, renderReq >>

SetText ==
  /\ mounted /\ changes < MaxChanges
  /\ \E t \in TextInputs : t # props.text /\ props' = [props EXCEPT !.text = t]
  /\ changes' = changes + 1
  /\ UNCHANGED << HostVars, size, renderReq >>

\* a new array: an identity neither the pending nor the rendered props have
SetHighlightWords ==
  /\ mounted /\ changes < MaxChanges
  /\ \E h \in HwInputs :
       LET id == CHOOSE k \in 1..3 : k # props.hwId /\ k # rd.props.hwId
       IN props' = [props EXCEPT !.highlightWords = h, !.hwId = id]
  /\ changes' = changes + 1
  /\ UNCHANGED << HostVars, size, renderReq >>

SetTrigger ==
  /\ mounted /\ changes < MaxChanges
  /\ \E tr \in Triggers : tr # props.trigger /\ props' = [props EXCEPT !.trigger = tr]
  /\ changes' = changes + 1
  /\ UNCHANGED << HostVars, size, renderReq >>

\* one of gravity, wireframes, backgroundColor, mouseConstraintStiffness
SetConfig ==
  /\ mounted /\ changes < MaxChanges
  /\ \E c \in [gravity : Gravities, wireframes : BOOLEAN,
               backgroundColor : Backgrounds,
               mouseConstraintStiffness : Stiffnesses] :
       /\ Cardinality({k \in DOMAIN c : c[k] # props.cfg[k]}) = 1
       /\ props' = [props EXCEPT !.cfg = c]
  /\ changes' = changes + 1
  /\ UNCHANGED << HostVars, size, renderReq >>

\* the host renders again and passes the very same props
HostRerender ==
  /\ mounted /\ committed /\ changes < MaxChanges
  /\ ~renderReq
  /\ renderReq' = TRUE
  /\ changes' = changes + 1
  /\ UNCHANGED << HostVars, size, props >>

\* React detaches the refs, then runs the cleanups of the effects; the
\* instance and its state are gone
Unmount ==
  /\ mounted
  /\ mounted' = FALSE
  /\ observers' = disconnect(observers, effObs)
  /\ effObs' = 0
  /\ sessions' = detach(IF curSession # 0
                        THEN [sessions EXCEPT ![curSession] = cleanup(@, FALSE)]
                        ELSE sessions)
  /\ curSession' = 0
  /\ dom' = EmptyDom
  /\ committed' = FALSE
  /\ st' = InitialState
  /\ rd' = [props |-> props, st |-> InitialState]
  /\ renderReq' = FALSE
  /\ anyEvent' = FALSE
  /\ everIntersecting' = FALSE
  /\ rendered' = {}
  /\ activatedBy' = "none"
  /\ lastStart' = "none"
  /\ UNCHANGED << props, size, changes, mounts >>

\* a fresh instance with the host's props: fresh state, nothing committed yet
Mount ==
  /\ ~mounted
  /\ mounts = 0 \/ changes < MaxChanges
  /\ changes' = IF mounts = 0 THEN changes ELSE changes + 1
  /\ mounted' = TRUE
  /\ rd' = [props |-> props, st |-> InitialState]
  /\ mounts' = mounts + 1
  /\ UNCHANGED << committed, props, st, renderReq, dom, size, observers, effObs,
                  sessions, curSession, anyEvent, everIntersecting, rendered,
                  activatedBy, lastStart >>

Next ==
  \/ Commit
  \/ Click
  \/ MouseOver
  \/ Intersect
  \/ Tick
  \/ Frame
  \/ Resize
  \/ SetText
  \/ SetHighlightWords
  \/ SetTrigger
  \/ SetConfig
  \/ HostRerender
  \/ Unmount
  \/ Mount

Spec == Init /\ [][Next]_vars

----------------------------------------------------------------------------
(* The rendering of every text and highlight list up to the bounds: one
   mount with trigger auto, no change of props *)

HwWords == { << >>, <<"a">>, <<"A">>, <<"b">>, <<"A", "b">> }

InitRender ==
  /\ \E t \in SeqsUpTo(Alphabet, MaxLen), h \in SeqsUpTo(HwWords, MaxHw) :
       InitWith([text |-> t, highlightWords |-> h, hwId |-> 1,
                 trigger |-> "auto", cfg |-> DefaultCfg])
  /\ size = [w |-> 200, h |-> 100]

NextRender ==
  \/ Mount
  \/ Commit
  \/ Tick
  \/ Frame

SpecRender == InitRender /\ [][NextRender]_vars

----------------------------------------------------------------------------
(* Properties *)

Live(i) == i # 0 /\ sessions[i].runnerOn /\ ~sessions[i].cleared

Quiescent == mounted /\ ~NeedRender

BoundPointerEvent ==
  \/ Click /\ rd.props.trigger = "click"
  \/ MouseOver /\ rd.props.trigger = "hover"

\* C1: with trigger click (or hover) the first click (or mouse-over) sets
\* effectStarted, every later one changes nothing, and without a change by
\* the host at most one session is ever started, however many events arrive
C1_ActivatesOnce ==
  /\ [](changes = 0 => Len(sessions) <= 1)
  /\ [][BoundPointerEvent =>
          IF st.effectStarted THEN UNCHANGED progVars
          ELSE st'.effectStarted /\ sessions' = sessions]_vars

C1_Witness ==
  /\ mounted /\ rendered = {"click"} /\ anyEvent /\ changes = 0
  /\ rd.st.effectStarted /\ Live(curSession)

\* C2: a mount that only rendered trigger scroll has no session and is not
\* started before an entry reported isIntersecting; the entry that reports
\* it starts the effect and disconnects the observer, any other entry
\* changes nothing; once started no observer is left connected and no
\* entry changes the state or the sessions
C2_ScrollActivation ==
  /\ [](mounted /\ rendered \subseteq {"scroll"} /\ ~everIntersecting
          => ~st.effectStarted /\ curSession = 0)
  /\ [](mounted /\ rendered \subseteq {"scroll"} /\ st.effectStarted
          => \A o \in DOMAIN observers : ~observers[o].connected)
  /\ [][Intersect =>
          \A o \in DOMAIN observers :
             observers'[o] # observers[o] =>
                IF observers'[o].prevInt
                THEN st'.effectStarted /\ ~observers'[o].connected
                ELSE st' = st /\ observers'[o].connected]_vars
  /\ [][Intersect /\ st.effectStarted => st' = st /\ sessions' = sessions]_vars

C2_Witness ==
  /\ mounted /\ rendered = {"scroll"} /\ everIntersecting
  /\ rd.st.effectStarted /\ Live(curSession)
  /\ \A o \in DOMAIN observers : ~observers[o].connected

\* C3: when a mount whose last render had trigger auto is quiescent, the
\* effect is started and a start has been attempted, a successful start
\* has left a running session, and with a container that was of positive
\* size all along the start was successful
C3_AutoActive ==
  Quiescent /\ rd.props.trigger = "auto" =>
    /\ st.effectStarted
    /\ lastStart # "none"
    /\ lastStart = "ok" => Live(curSession)
    /\ (changes = 0 /\ size.w > 0 /\ size.h > 0) => Live(curSession)

C3_Witness ==
  /\ Quiescent /\ rd.props.trigger = "auto" /\ ~anyEvent
  /\ st.effectStarted /\ Live(curSession)

\* C4: no session keeps running with bodies bound to elements that are no
\* longer the word spans of the text
C4_NoSessionOnOldTokens ==
  \A i \in DOMAIN sessions : Live(i) => sessions[i].onDom

\* C5: calling the cleanup of a torn-down session once more raises no error
C5_SecondTeardownSafe ==
  \A i \in DOMAIN sessions :
     sessions[i].cleared => ~cleanupThrows(sessions[i], mounted)

\* C6: a commit made while the container has no width or no height creates
\* nothing: no session, no renderer or runner, no frame of a sync loop, no
\* body, and it styles no word element; a mount that built no session has
\* its words in the static layout
C6_DegenerateCreatesNothing ==
  /\ [](mounted /\ (\A i \in DOMAIN sessions : sessions[i].mount # mounts)
          => dom.pos = "static" /\ dom.by = 0 /\ curSession = 0)
  /\ [][Commit /\ (size.w <= 0 \/ size.h <= 0) =>
          /\ Len(sessions') = Len(sessions)
          /\ curSession' \in {0, curSession}
          /\ \A i \in DOMAIN sessions :
                /\ sessions'[i].loop => sessions[i].loop
                /\ sessions'[i].runnerOn => sessions[i].runnerOn
                /\ sessions'[i].renderOn => sessions[i].renderOn
                /\ sessions'[i].canvasIn => sessions[i].canvasIn
                /\ sessions'[i].bodies <= sessions[i].bodies
                /\ sessions'[i].constraints <= sessions[i].constraints
                /\ Len(sessions'[i].boundaries) <= Len(sessions[i].boundaries)
          /\ dom'.pos \in {dom.pos, "static"}
          /\ dom'.by \in {dom.by, 0}]_vars

C6_Witness ==
  /\ mounted /\ st.effectStarted /\ st.isInitialized /\ lastStart = "abort"
  /\ size.h = 0 /\ sessions = << >> /\ dom.spans # << >> /\ dom.pos = "static"

Whitespace == {" ", "\t"}

WhitespaceTokens(text) ==
  Cardinality({i \in 1..Len(text) :
                 text[i] \notin Whitespace /\ (i = 1 \/ text[i - 1] \in Whitespace)})

\* C7: a session holds as many word bodies as the text has
\* whitespace-delimited tokens
C7_BodiesAreWhitespaceTokens ==
  \A i \in DOMAIN sessions :
     sessions[i].onDom => sessions[i].wordBodies = WhitespaceTokens(rd.props.text)

SameLetter(c, d) == c = d \/ {c, d} = {"a", "A"} \/ {c, d} = {"b", "B"}

EqualIgnoringCase(u, v) ==
  Len(u) = Len(v) /\ \A k \in 1..Len(u) : SameLetter(u[k], v[k])

\* C8: a word span carries the highlight iff its word equals an entry of
\* highlightWords up to the case of the letters, and upper-casing the word
\* or the entries gives the same answer
C8_HighlightIgnoresCase ==
  \A i \in DOMAIN dom.spans :
     LET w == dom.spans[i].word
         hws == props.highlightWords
     IN /\ dom.spans[i].hl <=>
             \E k \in DOMAIN hws : EqualIgnoringCase(w, hws[k])
        /\ isHighlighted(toUpperCase(w), hws) <=> dom.spans[i].hl
        /\ isHighlighted(w, [k \in DOMAIN hws |-> toUpperCase(hws[k])])
             <=> dom.spans[i].hl

C8_Witness ==
  \E i \in DOMAIN dom.spans :
     /\ dom.spans[i].hl
     /\ \A k \in DOMAIN props.highlightWords :
           props.highlightWords[k] # dom.spans[i].word

\* C9: while the component stays mounted, effectStarted never goes back
\* from true to false
C9_ActiveIsTerminal ==
  [][mounted /\ mounted' /\ st.effectStarted => st'.effectStarted]_vars

C9_Witness ==
  /\ Quiescent /\ st.effectStarted /\ anyEvent /\ changes = MaxChanges
  /\ rendered = {"click", "scroll"}

\* C10 as stated: after an aborted start, and with no pointer or
\* intersection event delivered, no session comes into existence for the
\* rest of the mount
C10_NoSessionAfterAbort ==
  [][lastStart = "abort" /\ mounted' /\ ~anyEvent'
       => Len(sessions') = Len(sessions)]_vars

\* C10 amended: after an aborted start a session comes into existence
\* exactly at a commit that renders a changed gravity, wireframes,
\* backgroundColor or mouseConstraintStiffness while the container has
\* positive width and height; a click or mouse-over changes nothing
C10_RetryOnlyOnConfigChange ==
  [][lastStart = "abort" /\ mounted' =>
       /\ Len(sessions') > Len(sessions) <=>
             /\ Commit
             /\ props.cfg # rd.props.cfg
             /\ size.w > 0 /\ size.h > 0
       /\ (Click \/ MouseOver) => UNCHANGED progVars]_vars

C10_Witness ==
  /\ mounted /\ lastStart = "abort" /\ sessions = << >>
  /\ props.cfg # rd.props.cfg /\ size.w > 0 /\ size.h > 0

----------------------------------------------------------------------------
\* C11: after the teardown of a session the runner-enabled condition its
\* synchronization loop polls is false, so that the loop asks for no
\* further frame.  Runner.stop only cancels the runner's own frame and the
\* cleanup never clears runner.enabled: a torn-down session keeps it true.
C11_TeardownDisablesRunner ==
  \A i \in DOMAIN sessions : sessions[i].cleared => ~sessions[i].enabled

----------------------------------------------------------------------------
\* C12: at most one session is live at any time, and a step that constructs
\* a session leaves every earlier session torn down (runner stopped, world
\* cleared).
LiveSessions == { i \in DOMAIN sessions : sessions[i].runnerOn /\ ~sessions[i].cleared }

C12_OneLiveSession ==
  /\ [](Cardinality(LiveSessions) <= 1)
  /\ [][Len(sessions') > Len(sessions) =>
          \A i \in DOMAIN sessions :
            ~sessions'[i].runnerOn /\ sessions'[i].cleared]_vars

\* a second session runs after the first was torn down by a rebuild
C12_Witness ==
  /\ mounted
  /\ Len(sessions) >= 2
  /\ Cardinality(LiveSessions) = 1
  /\ sessions[Len(sessions) - 1].mount = mounts

----------------------------------------------------------------------------
\* the render being committed is Active; the previous one was
ActiveNow == st.effectStarted /\ st.isInitialized
ActiveBefore == rd.st.effectStarted /\ rd.st.isInitialized

\* the commit appends exactly one session, running and current
OneConstruction ==
  /\ Len(sessions') = Len(sessions) + 1
  /\ curSession' = Len(sessions')
  /\ sessions'[curSession'].runnerOn /\ ~sessions'[curSession'].cleared
  /\ sessions'[curSession'].gravity = props.cfg.gravity

NoConstruction == Len(sessions') = Len(sessions)

\* the session that was running is fully torn down by the commit
OneTeardown ==
  curSession # 0 =>
    /\ ~sessions'[curSession].runnerOn /\ ~sessions'[curSession].renderOn
    /\ sessions'[curSession].cleared

NoTeardown ==
  /\ curSession' = curSession
  /\ \A i \in DOMAIN sessions :
       /\ sessions'[i].cleared = sessions[i].cleared
       /\ sessions'[i].runnerOn = sessions[i].runnerOn

\* C13 as stated: a session starts when the component becomes Active, every
\* change of one of the four options while Active tears the running session
\* down and constructs a fresh one, and any other re-render does neither.
C13_RebuildOnEveryConfigChange ==
  [][Commit =>
       /\ (ActiveNow /\ ~ActiveBefore) => OneConstruction
       /\ (ActiveBefore /\ rd.props.cfg # props.cfg) =>
            OneTeardown /\ OneConstruction
       /\ (ActiveBefore /\ rd.props.cfg = props.cfg) =>
            NoTeardown /\ NoConstruction]_vars

\* C13: the same, except that a commit which finds the container with a
\* non-positive width or height constructs nothing: becoming Active then
\* starts no session, and a change of one of the four options still tears
\* the running session down but leaves the component without a session.
C13_RebuildUnlessDegenerate ==
  [][Commit =>
       /\ (ActiveNow /\ ~ActiveBefore) =>
            IF size.w <= 0 \/ size.h <= 0
            THEN NoConstruction /\ curSession' = 0
            ELSE OneConstruction
       /\ (ActiveBefore /\ rd.props.cfg # props.cfg) =>
            /\ OneTeardown
            /\ IF size.w <= 0 \/ size.h <= 0
               THEN NoConstruction /\ curSession' = 0
               ELSE OneConstruction
       /\ (ActiveBefore /\ rd.props.cfg = props.cfg) =>
            NoTeardown /\ NoConstruction
       /\ ~ActiveNow => NoConstruction /\ curSession' = 0]_vars

\* a change of gravity has replaced a running session by a fresh one
C13_Witness ==
  /\ mounted /\ ~NeedRender
  /\ curSession >= 2
  /\ sessions[curSession].runnerOn /\ ~sessions[curSession].cleared
  /\ sessions[curSession - 1].mount = mounts
  /\ sessions[curSession - 1].cleared
  /\ sessions[curSession - 1].gravity # sessions[curSession].gravity

----------------------------------------------------------------------------
\* C14: no session is built from a token rectangle of non-positive width:
\* a start that measures such a rectangle is aborted.  The code passes
\* rect.width to Bodies.rectangle unchecked, so the empty span that
\* "a  b" renders gets a body of width 0.
C14_NoBodyFromEmptyRect ==
  \A i \in DOMAIN sessions :
     \A k \in DOMAIN sessions[i].widths : sessions[i].widths[k] > 0

----------------------------------------------------------------------------
ConnectedObservers == { o \in DOMAIN observers : observers[o].connected }

\* C15: at most one observer is connected; a connected observer is the one
\* the trigger effect of the last commit registered, in a mounted component
\* rendered with trigger = scroll; no observer is connected after unmount,
\* and none after an intersection has activated the component.
C15_ObserversPaired ==
  /\ [](Cardinality(ConnectedObservers) <= 1)
  /\ [](\A o \in ConnectedObservers :
           mounted /\ committed /\ rd.props.trigger = "scroll" /\ o = effObs)
  /\ [](~mounted => ConnectedObservers = {})
  /\ [][(Intersect /\ ~st.effectStarted /\ st'.effectStarted) =>
          ConnectedObservers' = {}]_vars

\* the observer of a scroll-mode render was disconnected by the commit of
\* another trigger mode, before any activation
C15_Witness ==
  /\ mounted /\ committed /\ mounts = 1
  /\ rd.props.trigger # "scroll"
  /\ ~st.effectStarted
  /\ Len(observers) >= 1
  /\ ConnectedObservers = {}

----------------------------------------------------------------------------
\* the world of a session as World.add filled it
WorldAsBuilt(s) ==
  /\ Len(s.boundaries) = 4
  /\ \A j \in 1..4 : s.boundaries[j].isStatic
  /\ s.boundaries[1].name = "floor"
  /\ s.boundaries[1].y = s.h + wallOffset /\ s.boundaries[1].h = wallThickness
  /\ s.boundaries[2].name = "leftWall"
  /\ s.boundaries[2].x = 0 - wallOffset /\ s.boundaries[2].w = wallThickness
  /\ s.boundaries[3].name = "rightWall"
  /\ s.boundaries[3].x = s.w + wallOffset /\ s.boundaries[3].w = wallThickness
  /\ s.boundaries[4].name = "ceiling"
  /\ s.boundaries[4].y = 0 - wallOffset /\ s.boundaries[4].h = wallThickness
  /\ s.constraints = 1
  /\ s.bodies = s.wordBodies

\* C16: a session that has not been torn down holds exactly the four static
\* walls at their positions, one pointer constraint and one body per word
\* element; it is created with all of them before any step has run, and no
\* later step adds a wall, a constraint or a body to it.
C16_WorldBuiltInOneBatch ==
  /\ [](\A i \in DOMAIN sessions :
           ~sessions[i].cleared => WorldAsBuilt(sessions[i]))
  /\ [][\A i \in DOMAIN sessions' :
          IF i \in DOMAIN sessions
          THEN /\ Len(sessions'[i].boundaries) <= Len(sessions[i].boundaries)
               /\ sessions'[i].constraints <= sessions[i].constraints
               /\ sessions'[i].bodies <= sessions[i].bodies
          ELSE /\ ~sessions'[i].moved
               /\ WorldAsBuilt(sessions'[i])
               /\ sessions'[i].bodies = Len(dom'.spans)]_vars

\* a running session whose world has been stepped
C16_Witness ==
  /\ curSession # 0
  /\ sessions[curSession].runnerOn /\ ~sessions[curSession].cleared
  /\ sessions[curSession].moved
  /\ sessions[curSession].bodies >= 2

----------------------------------------------------------------------------
\* centre of the k-th word element while every element is in the flow
StaticCentre(spans, k) ==
  flowEdge(spans, k, {}) + rectWidth(spans[k].word) \div 2

\* C17: a session start leaves every word element at the initial centre of
\* its own body, before any step; when the elements were in the static
\* layout, these centres are the ones of that layout with no element taken
\* out of the flow; and a sync frame that runs before the first step writes
\* the same positions.
C17_MeasuredBeforePlaced ==
  /\ [][Len(sessions') > Len(sessions) =>
          LET s == sessions'[Len(sessions')]
          IN /\ ~s.moved
             /\ dom'.pos = "init" /\ dom'.by = Len(sessions')
             /\ Len(s.initX) = Len(dom'.spans)
             /\ dom'.left = s.initX
             /\ dom.pos = "static" =>
                  \A k \in 1..Len(dom'.spans) :
                     s.initX[k] = StaticCentre(dom'.spans, k)]_vars
  /\ [](dom.pos = "init" => dom.left = sessions[dom.by].initX)

\* a session has placed two word elements at distinct centres and no step
\* has run
C17_Witness ==
  /\ curSession # 0
  /\ ~sessions[curSession].moved
  /\ dom.pos = "init" /\ dom.by = curSession
  /\ Len(dom.spans) >= 2
  /\ dom.left[2] > dom.left[1]

----------------------------------------------------------------------------
\* C18: a running session exists only in a mounted component whose last
\* render saw effectStarted and isInitialized both true, and a session is
\* only ever constructed by such a render, over rendered word elements.
C18_SessionOnlyWhenStartedAndInitialized ==
  /\ [](Cardinality(LiveSessions) > 0 =>
           /\ mounted
           /\ rd.st.effectStarted /\ rd.st.isInitialized
           /\ st.effectStarted /\ st.isInitialized)
  /\ [][Len(sessions') > Len(sessions) =>
          /\ rd'.st.effectStarted /\ rd'.st.isInitialized
          /\ Len(dom'.spans) >= 1]_vars

\* a click or mouse-over has set effectStarted before any render saw
\* isInitialized; no session exists
C18_Witness ==
  /\ mounted /\ committed
  /\ rd.props.trigger \in {"click", "hover"}
  /\ st.effectStarted /\ ~rd.st.isInitialized
  /\ curSession = 0

----------------------------------------------------------------------------
\* C19: effectStarted is first set only by the event of the rendered trigger
\* mode: by a click when the container was rendered with trigger = click,
\* by a mouse-over with trigger = hover, by an intersection entry with
\* trigger = scroll, and by the commit of a render with trigger = auto.
C19_OnlyBoundTriggerActivates ==
  [][(~st.effectStarted /\ st'.effectStarted) =>
       \/ activatedBy' = "click" /\ rd.props.trigger = "click"
       \/ activatedBy' = "mouseover" /\ rd.props.trigger = "hover"
       \/ activatedBy' = "intersection" /\ rd.props.trigger = "scroll"
       \/ activatedBy' = "auto" /\ props.trigger = "auto"]_vars

\* pointer and viewport events reached a component that has only rendered
\* trigger = hover, and a mouse-over then activated it
C19_Witness ==
  /\ mounted /\ committed
  /\ rendered = {"hover"}
  /\ anyEvent
  /\ st.effectStarted /\ activatedBy = "mouseover"

----------------------------------------------------------------------------
\* the sessions whose synchronization loop has a frame requested and will
\* request another one when it runs
PendingLoops ==
  { i \in DOMAIN sessions : sessions[i].loop /\ sessions[i].enabled }

\* C20: at most one synchronization loop has an animation frame pending.
\* Because a torn-down session keeps runner.enabled true (C11), its loop
\* is still pending when the rebuilt session starts its own.
C20_OneSyncLoop ==
  Cardinality(PendingLoops) <= 1

====
